---- MODULE Spec2Model ----
(***************************************************************************)
(* A model of the Deye inverter collector (src/deye_modbus.py): the Modbus *)
(* frame codec, the AT transport session of DeyeAtConnector over a         *)
(* datagram socket, and the read cycle of the script; and of the smart     *)
(* meter script (src/tibber_raw.py): its polling loop and its record loop. *)
(*                                                                         *)
(* Bytes objects are sequences of integers 0..255; text carried in         *)
(* datagrams is the sequence of its ASCII codes.                           *)
(***************************************************************************)
EXTENDS Integers, Sequences, FiniteSets, TLC

VARIABLES conn, twin, calls, mpc, response, fields, exit_status, store_calls, sink, codec,
          tibber, net

vars == <<conn, twin, calls, mpc, response, fields, exit_status, store_calls, sink, codec, tibber, net>>

(***************************************************************************)
(* Bytes and text                                                          *)
(***************************************************************************)

\* Python's None where a bytes object is expected (no byte is negative).
None == << -1 >>

Byte == 0..255

RECURSIVE Xor(_, _)
\* a ^ b on non-negative integers
Xor(a, b) ==
    IF a = 0 THEN b
    ELSE IF b = 0 THEN a
    ELSE ((a + b) % 2) + 2 * Xor(a \div 2, b \div 2)

RECURSIVE crc_shift(_, _)
\* the eight shift steps of CRC-16/MODBUS (reflected polynomial 0xA001) for one byte
crc_shift(crc, n) ==
    IF n = 0 THEN crc
    ELSE crc_shift(IF crc % 2 = 1 THEN Xor(crc \div 2, 40961) ELSE crc \div 2, n - 1)

RECURSIVE crc_from(_, _, _, _)
\* the CRC register after bytes lo..hi of data, entered with crc: the bytes are taken
\* in order, the register after the first half entering the second (the range is
\* halved, and the first half evaluated before the second, to keep evaluation shallow)
crc_from(data, lo, hi, crc) ==
    IF lo > hi THEN crc
    ELSE IF lo = hi THEN crc_shift(Xor(crc, data[lo]), 8)
    ELSE LET mid == (lo + hi) \div 2
             left == crc_from(data, lo, mid, crc)
         IN  IF left >= 0 THEN crc_from(data, mid + 1, hi, left) ELSE left

\* a checksum that leaves out the first byte
modbus_crc16_tail(data) == crc_from(data, 2, Len(data), 65535)

\* libscrc.modbus(data): CRC-16/MODBUS, initial value 0xFFFF
modbus_crc16(data) == crc_from(data, 1, Len(data), 65535)

\* Python slice s[a:b] for 0 <= a, b clipped to the length
Slice(s, a, b) == SubSeq(s, a + 1, IF b > Len(s) THEN Len(s) ELSE b)

\* bytes.startswith
startswith(s, p) == Len(s) >= Len(p) /\ SubSeq(s, 1, Len(p)) = p

\* the ASCII code of lowercase hexadecimal digit d (0..15)
HexChar(d) == IF d < 10 THEN 48 + d ELSE 87 + d

\* the value of the ASCII character c as a hexadecimal digit, -1 when it is none
HexVal(c) ==
    IF c >= 48 /\ c <= 57 THEN c - 48
    ELSE IF c >= 97 /\ c <= 102 THEN c - 87
    ELSE IF c >= 65 /\ c <= 70 THEN c - 55
    ELSE -1

\* bytes.hex(): two lowercase digits per byte
hex(b) ==
    [i \in 1..(2 * Len(b)) |->
        IF i % 2 = 1 THEN HexChar(b[(i + 1) \div 2] \div 16) ELSE HexChar(b[i \div 2] % 16)]

\* ASCII whitespace, which fromhex skips between bytes
IsSpace(c) == c \in {32, 9, 10, 11, 12, 13}

\* bytearray.fromhex(s): two hexadecimal digits per byte, ASCII whitespace skipped
\* between bytes only; None stands for the ValueError it raises
fromhex(s) ==
    LET IsDigitChar(c) == ~IsSpace(c)
        ns == SelectSeq(s, IsDigitChar)
        before(i) == Cardinality({j \in 1..(i - 1) : ~IsSpace(s[j])})
    IN  IF \/ Len(ns) % 2 = 1
           \/ \E i \in 1..Len(ns) : HexVal(ns[i]) < 0
           \/ \E i \in 1..Len(s) : IsSpace(s[i]) /\ before(i) % 2 = 1
        THEN None
        ELSE [k \in 1..(Len(ns) \div 2) |-> 16 * HexVal(ns[2 * k - 1]) + HexVal(ns[2 * k])]

RECURSIVE hexdigits(_)
\* the hexadecimal digits of v >= 0, most significant first, no padding
hexdigits(v) ==
    IF v < 16 THEN <<HexChar(v)>> ELSE Append(hexdigits(v \div 16), HexChar(v % 16))

\* "{:04x}".format(v) for v >= 0: zero padded to at least four digits
fmt04x(v) ==
    LET d == hexdigits(v)
    IN  IF Len(d) >= 4 THEN d ELSE [i \in 1..(4 - Len(d)) |-> 48] \o d

RECURSIVE decimal(_)
\* str(n) for n >= 0
decimal(n) ==
    IF n < 10 THEN <<48 + n>> ELSE Append(decimal(n \div 10), 48 + (n % 10))

\* bytes.replace(bytes([x]), b"")
remove_byte(s, x) ==
    LET Keep(c) == c # x
    IN  SelectSeq(s, Keep)

(***************************************************************************)
(* Frame codec                                                             *)
(***************************************************************************)

\* build_modbus_read_holding_registers_request_frame
build_modbus_read_holding_registers_request_frame(first_reg, last_reg) ==
    LET reg_count == last_reg - first_reg + 1
    IN  fromhex(<<48, 49, 48, 51>> \o fmt04x(first_reg) \o fmt04x(reg_count))

\* the request CRC as read_holding_registers appends it: "{:04x}" then reversed
request_crc_bytes(frame) ==
    LET b == fromhex(fmt04x(modbus_crc16(frame)))
    IN  [i \in 1..Len(b) |-> b[Len(b) + 1 - i]]

\* int.from_bytes(b, "little")
RECURSIVE from_bytes_little(_)
from_bytes_little(b) ==
    IF b = <<>> THEN 0 ELSE Head(b) + 256 * from_bytes_little(Tail(b))

\* int.from_bytes(b, "big")
RECURSIVE from_bytes_big(_)
from_bytes_big(b) ==
    IF b = <<>> THEN 0 ELSE 256 * from_bytes_big(SubSeq(b, 1, Len(b) - 1)) + b[Len(b)]

\* the length check of parse_modbus_read_holding_registers_response
frame_too_short(frame, first_reg, last_reg) ==
    LET reg_count == last_reg - first_reg + 1
        expected_frame_data_len == 2 + 1 + reg_count * 2
    IN  Len(frame) < expected_frame_data_len + 2

\* the CRC check left out
frame_crc_unchecked(frame, first_reg, last_reg) == FALSE

\* the CRC check of parse_modbus_read_holding_registers_response
frame_crc_invalid(frame, first_reg, last_reg) ==
    LET reg_count == last_reg - first_reg + 1
        expected_frame_data_len == 2 + 1 + reg_count * 2
        actual_crc == from_bytes_little(
                          Slice(frame, expected_frame_data_len, expected_frame_data_len + 2))
        expected_crc == modbus_crc16(Slice(frame, 0, expected_frame_data_len))
    IN  actual_crc # expected_crc

\* the register map with the data taken to start one byte early
frame_registers_early(frame, first_reg, last_reg) ==
    [a \in first_reg..last_reg |->
        Slice(frame, 2 + (a - first_reg) * 2, 2 + (a - first_reg) * 2 + 2)]

\* the register map built by the loop of the parser
frame_registers(frame, first_reg, last_reg) ==
    [a \in first_reg..last_reg |->
        Slice(frame, 3 + (a - first_reg) * 2, 3 + (a - first_reg) * 2 + 2)]

\* the parser with its two checks in the other order
parse_crc_first(frame, first_reg, last_reg) ==
    IF frame_crc_invalid(frame, first_reg, last_reg)
    THEN [error |-> "Modbus frame crc is not valid", registers |-> <<>>]
    ELSE IF frame_too_short(frame, first_reg, last_reg)
    THEN [error |-> "Modbus frame is too short", registers |-> <<>>]
    ELSE [error |-> "", registers |-> frame_registers(frame, first_reg, last_reg)]

\* parse_modbus_read_holding_registers_response: the error raised, or the map
parse_modbus_read_holding_registers_response(frame, first_reg, last_reg) ==
    IF frame_too_short(frame, first_reg, last_reg)
    THEN [error |-> "Modbus frame is too short", registers |-> <<>>]
    ELSE IF frame_crc_invalid(frame, first_reg, last_reg)
    THEN [error |-> "Modbus frame crc is not valid", registers |-> <<>>]
    ELSE [error |-> "", registers |-> frame_registers(frame, first_reg, last_reg)]

(***************************************************************************)
(* AT transport session: DeyeAtConnector                                   *)
(***************************************************************************)

\* the attempt budget of __receive_at_response
Attempts == 5

\* b"WIFIKIT-214028-READ"
AuthCommand == <<87, 73, 70, 73, 75, 73, 84, 45, 50, 49, 52, 48, 50, 56, 45, 82, 69, 65, 68>>

\* b"+ok"
OkCommand == <<43, 111, 107>>

\* b"AT+Q\n"
QuitCommand == <<65, 84, 43, 81, 10>>

\* bytes(f"AT+INVDATA={int(len(modbus_frame_str) / 2)},{modbus_frame_str}\n", "ascii")
InvDataCommand(req_frame) ==
    LET modbus_frame_str == hex(req_frame)
    IN  <<65, 84, 43, 73, 78, 86, 68, 65, 84, 65, 61>>
            \o decimal(Len(modbus_frame_str) \div 2) \o <<44>> \o modbus_frame_str \o <<10>>

\* b"+ok=no data"
NoDataPrefix == <<43, 111, 107, 61, 110, 111, 32, 100, 97, 116, 97>>

\* b"+ERR="
ErrPrefix == <<43, 69, 82, 82, 61>>

\* b"+ok="
OkPrefix == <<43, 111, 107, 61>>

\* DeyeAtConnector.__init__ : a connector that made no call yet.  The fields after
\* reachable are the locals of the call of send_request in progress (pc its position,
\* exc whether an exception is in flight) and what an observer records of it: the
\* datagrams sent, the number of recv calls, the step that raised, whether the
\* authenticate receive returned a datagram, the outcomes of socket creation, the log.
NewConnector(reachable) ==
    [reachable |-> reachable, pc |-> "idle", sock |-> "none", req_frame |-> <<>>,
     sent |-> <<>>, attempts |-> 0, recvs |-> 0, at_response |-> None,
     modbus_response |-> None, early |-> FALSE, exc |-> FALSE, result |-> None,
     raised_in |-> "", auth_replied |-> FALSE, opens |-> <<>>, log |-> <<>>]

\* one logging call
Logged(s, level, msg) == [s EXCEPT !.log = Append(@, [level |-> level, msg |-> msg])]

\* entry of send_request(req_frame): modbus_response = None
send_request(s, req_frame) ==
    [s EXCEPT !.pc = "create", !.sock = "none", !.req_frame = req_frame, !.sent = <<>>,
              !.attempts = 0, !.recvs = 0, !.at_response = None, !.modbus_response = None,
              !.early = FALSE, !.exc = FALSE, !.result = None, !.raised_in = "",
              !.auth_replied = FALSE]

\* __create_socket that leaves the flag set when the socket does not open
create_socket_nosticky(s, ok) ==
    IF ok
    THEN LET s1 == IF ~s.reachable
                   THEN Logged([s EXCEPT !.reachable = TRUE], "INFO", "Re-connected to socket")
                   ELSE s
         IN  [s1 EXCEPT !.sock = "open", !.opens = Append(@, TRUE), !.pc = "auth_send"]
    ELSE LET s1 == IF s.reachable
                   THEN Logged(s, "WARNING", "Could not open socket")
                   ELSE Logged(s, "DEBUG", "Could not open socket")
         IN  [s1 EXCEPT !.opens = Append(@, FALSE), !.result = None, !.pc = "returned"]

\* __create_socket that does not set the flag again when the socket opens
create_socket_noreset(s, ok) ==
    IF ok
    THEN LET s1 == IF ~s.reachable
                   THEN Logged(s, "INFO", "Re-connected to socket")
                   ELSE s
         IN  [s1 EXCEPT !.sock = "open", !.opens = Append(@, TRUE), !.pc = "auth_send"]
    ELSE LET s1 == IF s.reachable
                   THEN Logged(s, "WARNING", "Could not open socket")
                   ELSE Logged(s, "DEBUG", "Could not open socket")
         IN  [s1 EXCEPT !.reachable = FALSE, !.opens = Append(@, FALSE),
                        !.result = None, !.pc = "returned"]

\* __create_socket that opens no socket while the flag says unreachable
create_socket_giveup(s, ok) ==
    IF ok /\ s.reachable
    THEN [s EXCEPT !.sock = "open", !.opens = Append(@, TRUE), !.pc = "auth_send"]
    ELSE LET s1 == IF s.reachable
                   THEN Logged(s, "WARNING", "Could not open socket")
                   ELSE Logged(s, "DEBUG", "Could not open socket")
         IN  [s1 EXCEPT !.reachable = ok, !.opens = Append(@, FALSE),
                        !.result = None, !.pc = "returned"]

\* __create_socket, and the test of its result in send_request; ok: socket.socket(...)
\* and settimeout(1) succeeded, otherwise an OSError was raised
create_socket(s, ok) ==
    IF ok
    THEN LET s1 == IF ~s.reachable
                   THEN Logged([s EXCEPT !.reachable = TRUE], "INFO", "Re-connected to socket")
                   ELSE s
         IN  [s1 EXCEPT !.sock = "open", !.opens = Append(@, TRUE), !.pc = "auth_send"]
    ELSE LET s1 == IF s.reachable
                   THEN Logged(s, "WARNING", "Could not open socket")
                   ELSE Logged(s, "DEBUG", "Could not open socket")
         IN  [s1 EXCEPT !.reachable = FALSE, !.opens = Append(@, FALSE),
                        !.result = None, !.pc = "returned"]

\* an exception raised inside the try block of send_request: control goes to its
\* except clause
raise_exception(s) == [s EXCEPT !.exc = TRUE, !.raised_in = s.pc, !.pc = "except"]

\* __send_at_command; ok: sendto succeeded, otherwise it raised an OSError
send_at_command(s, at_command, ok, next) ==
    IF ok
    THEN [s EXCEPT !.sent = Append(@, [data |-> at_command, sock |-> s.sock]), !.pc = next]
    ELSE raise_exception(s)

\* __receive_at_response entered with one attempt more
begin_receive_extra(s) == [s EXCEPT !.attempts = Attempts + 1]

\* __receive_at_response is entered: attempts = 5
begin_receive(s) == [s EXCEPT !.attempts = Attempts]

\* a return that ends the session when the authenticate receive got nothing
receive_return_gated(s, data) ==
    IF s.pc = "auth_recv"
    THEN IF data = None THEN [s EXCEPT !.pc = "finally"]
         ELSE [s EXCEPT !.auth_replied = TRUE, !.pc = "ok_send"]
    ELSE [s EXCEPT !.at_response = data, !.pc = "classify"]

\* __receive_at_response returns data to its caller: __authenticate discards it,
\* send_request keeps it as at_response
receive_return(s, data) ==
    IF s.pc = "auth_recv"
    THEN [s EXCEPT !.auth_replied = (data # None), !.pc = "ok_send"]
    ELSE [s EXCEPT !.at_response = data, !.pc = "classify"]

\* an iteration that gives up at the first timeout
receive_attempt_giveup(s, outcome) ==
    LET s1 == [s EXCEPT !.attempts = @ - 1, !.recvs = @ + 1]
    IN  CASE outcome.kind = "data" /\ outcome.data # <<>> -> receive_return(s1, outcome.data)
          [] outcome.kind = "data" /\ outcome.data = <<>> ->
                 IF s1.attempts > 0 THEN s1 ELSE receive_return(s1, None)
          [] outcome.kind = "timeout" -> receive_return(s1, None)
          [] outcome.kind = "oserror" -> raise_exception(s1)
          [] outcome.kind = "error" -> receive_return(s1, None)

\* one iteration of the loop of __receive_at_response; outcome is what recv(1024) did
receive_attempt(s, outcome) ==
    LET s1 == [s EXCEPT !.attempts = @ - 1, !.recvs = @ + 1]
    IN  CASE outcome.kind = "data" /\ outcome.data # <<>> -> receive_return(s1, outcome.data)
          [] outcome.kind = "data" /\ outcome.data = <<>> ->
                 IF s1.attempts > 0 THEN s1 ELSE receive_return(s1, None)
          [] outcome.kind = "timeout" ->
                 IF s1.attempts > 0 THEN s1 ELSE receive_return(s1, None)
          \* the handler of OSError reads self.config, which no connector has: the
          \* AttributeError leaves __receive_at_response
          [] outcome.kind = "oserror" -> raise_exception(s1)
          [] outcome.kind = "error" -> receive_return(s1, None)

\* __authenticate: the send; the receive follows
authenticate(s, ok) ==
    LET s1 == send_at_command(s, AuthCommand, ok, "auth_recv")
    IN  IF ok THEN begin_receive(s1) ELSE s1

\* self.__send_at_command(client_socket, b"+ok")
send_ok(s, ok) == send_at_command(s, OkCommand, ok, "inv_send")

\* the AT+INVDATA send, the settle delay and the entry of the response receive
send_invdata(s, ok) ==
    LET s1 == send_at_command(s, InvDataCommand(s.req_frame), ok, "resp_recv")
    IN  IF ok THEN begin_receive(s1) ELSE s1

\* the extraction that drops no "0000" suffix
extract_keep_zeros(at_cmd_response) ==
    LET stripped == remove_byte(at_cmd_response, 16)
    IN  fromhex(Slice(stripped, 4, Len(stripped) - 4))

\* the extraction with the "0000" suffix dropped from a text of 4 characters too
extract_strip_short(at_cmd_response) ==
    LET stripped == remove_byte(at_cmd_response, 16)
        extracted == Slice(stripped, 4, Len(stripped) - 4)
        n == Len(extracted)
        cut == IF n >= 4 /\ SubSeq(extracted, n - 3, n) = <<48, 48, 48, 48>>
               THEN Slice(extracted, 0, n - 4) ELSE extracted
    IN  fromhex(cut)

\* DeyeAtConnector.extract_modbus_respose; None stands for the exception raised by
\* decode or fromhex
extract_modbus_respose(at_cmd_response) ==
    LET stripped == remove_byte(at_cmd_response, 16)
        extracted == Slice(stripped, 4, Len(stripped) - 4)
        n == Len(extracted)
        cut == IF n > 4 /\ SubSeq(extracted, n - 3, n) = <<48, 48, 48, 48>>
               THEN Slice(extracted, 0, n - 4)
               ELSE extracted
    IN  fromhex(cut)

\* the interpretation that goes on to the quit command after a "+ERR=" reply
classify_quit_after_error(s) ==
    IF s.at_response = None \/ s.at_response = <<>> \/ startswith(s.at_response, NoDataPrefix)
    THEN [Logged(s, "WARNING", "No data received for request")
            EXCEPT !.early = TRUE, !.pc = "finally"]
    ELSE IF startswith(s.at_response, ErrPrefix)
    THEN [Logged(s, "WARNING", "Error received for request") EXCEPT !.pc = "deauth"]
    ELSE IF startswith(s.at_response, OkPrefix)
    THEN LET r == extract_modbus_respose(s.at_response)
         IN  IF r = None THEN raise_exception(s)
             ELSE [s EXCEPT !.modbus_response = r, !.pc = "deauth"]
    ELSE [s EXCEPT !.pc = "deauth"]

\* the interpretation with the "+ok=" test ahead of the "+ok=no data" test
classify_okfirst(s) ==
    IF s.at_response = None \/ s.at_response = <<>>
    THEN [Logged(s, "WARNING", "No data received for request")
            EXCEPT !.early = TRUE, !.pc = "finally"]
    ELSE IF startswith(s.at_response, OkPrefix)
    THEN LET r == extract_modbus_respose(s.at_response)
         IN  IF r = None THEN raise_exception(s)
             ELSE [s EXCEPT !.modbus_response = r, !.pc = "deauth"]
    ELSE IF startswith(s.at_response, ErrPrefix)
    THEN [Logged(s, "WARNING", "Error received for request")
            EXCEPT !.early = TRUE, !.pc = "finally"]
    ELSE [s EXCEPT !.pc = "deauth"]

\* the interpretation of at_response in send_request
classify(s) ==
    IF s.at_response = None \/ s.at_response = <<>> \/ startswith(s.at_response, NoDataPrefix)
    THEN [Logged(s, "WARNING", "No data received for request")
            EXCEPT !.early = TRUE, !.pc = "finally"]
    ELSE IF startswith(s.at_response, ErrPrefix)
    THEN [Logged(s, "WARNING", "Error received for request")
            EXCEPT !.early = TRUE, !.pc = "finally"]
    ELSE IF startswith(s.at_response, OkPrefix)
    THEN LET r == extract_modbus_respose(s.at_response)
         IN  IF r = None THEN raise_exception(s)
             ELSE [s EXCEPT !.modbus_response = r, !.pc = "deauth"]
    ELSE [s EXCEPT !.pc = "deauth"]

\* __deauthenticate
deauthenticate(s, ok) == send_at_command(s, QuitCommand, ok, "finally")

\* an except clause that catches OSError only: the errors of recv's handler and of
\* the extraction pass it by
except_clause_narrow(s) ==
    IF s.raised_in \in {"auth_recv", "resp_recv", "classify"}
    THEN [s EXCEPT !.pc = "finally"]
    ELSE [Logged(s, "ERROR", "Failed to read data over AT command")
            EXCEPT !.exc = FALSE, !.pc = "finally"]

\* except Exception: logging.exception(...)
except_clause(s) ==
    [Logged(s, "ERROR", "Failed to read data over AT command")
        EXCEPT !.exc = FALSE, !.pc = "finally"]

\* the socket closed after the try statement instead of in a finally clause: an early
\* return leaves it open
finally_clause_leak(s) ==
    [s EXCEPT !.sock = IF s.early THEN "open" ELSE "closed",
              !.pc = IF s.exc THEN "raised" ELSE "returned",
              !.result = IF s.exc \/ s.early THEN None ELSE s.modbus_response]

\* finally: client_socket.close(); then the pending return None, the propagation of
\* an exception nothing caught, or return modbus_response
finally_clause(s) ==
    [s EXCEPT !.sock = "closed",
              !.pc = IF s.exc THEN "raised" ELSE "returned",
              !.result = IF s.exc \/ s.early THEN None ELSE s.modbus_response]

(***************************************************************************)
(* Register decoder and the read cycle of the script                       *)
(***************************************************************************)

\* the register range the script reads
FirstReg == 60

LastReg == 112

\* read_holding_registers up to the call of send_request: the request frame with
\* its CRC appended
request_frame(first_reg, last_reg) ==
    LET modbus_frame == build_modbus_read_holding_registers_request_frame(first_reg, last_reg)
    IN  modbus_frame \o request_crc_bytes(modbus_frame)

\* read_unit16
read_unit16(resp, address) == from_bytes_big(resp[address]) % 65536

\* x & 0xffffffff for 0 <= x < 2^31, the integers of the model: the identity
mask32(x) == x

\* read_unit32
read_unit32(resp, address) == mask32(from_bytes_big(resp[address]))

\* read_int16 with the sign taken from 32767 on
read_int16_early(resp, address) ==
    LET value == from_bytes_big(resp[address]) % 65536
    IN  IF value >= 32767 THEN value - 65536 ELSE value

\* read_int16
read_int16(resp, address) ==
    LET value == from_bytes_big(resp[address]) % 65536
    IN  IF value > 32767 THEN value - 65536 ELSE value

\* read_int32
read_int32(resp, address) ==
    LET value == read_unit32(resp, address)
    IN  IF value > 2147483647 THEN ((value - 2147483647) - 2147483647) - 2 ELSE value

\* get_fields_from_response; every value is held in hundredths (scale 0.1 is 10
\* hundredths per count, scale 0.01 is one, the unscaled uptime is 100)
get_fields_from_response(resp) ==
    [day_energy       |-> read_unit16(resp, 60) * 10,
     uptime           |-> read_unit16(resp, 60) * 100,
     total_energy     |-> read_unit32(resp, 63) * 10,
     pv1_day_energy   |-> read_unit16(resp, 65) * 10,
     pv2_day_energy   |-> read_unit16(resp, 66) * 10,
     pv1_total_energy |-> read_unit32(resp, 69) * 10,
     pv2_total_energy |-> read_unit32(resp, 71) * 10,
     l1_voltage       |-> read_int16(resp, 73) * 10,
     l1_current       |-> read_int16(resp, 76) * 10,
     freq             |-> read_int16(resp, 79),
     operating_power  |-> read_int16(resp, 80),
     active_power     |-> read_int32(resp, 86) * 10,
     radiator_temp    |-> read_int16(resp, 90),
     pv1_voltage      |-> read_int16(resp, 109) * 10,
     pv1_current      |-> read_int16(resp, 110) * 10,
     pv2_voltage      |-> read_int16(resp, 111) * 10,
     pv2_current      |-> read_int16(resp, 112) * 10]

\* the five points store_in_influxdb builds from the fields
influx_data(data) ==
    << [measurement |-> "operation", tags |-> <<>>,
        fields |-> [uptime |-> data.uptime, operating_power |-> data.operating_power,
                    radiator_temp |-> data.radiator_temp]],
       [measurement |-> "ac", tags |-> <<>>,
        fields |-> [day_energy |-> data.day_energy, total_energy |-> data.total_energy,
                    freq |-> data.freq, active_power |-> data.active_power]],
       [measurement |-> "ac", tags |-> <<"l1">>,
        fields |-> [voltage |-> data.l1_voltage, current |-> data.l1_current]],
       [measurement |-> "dc", tags |-> <<"pv1">>,
        fields |-> [voltage |-> data.pv1_voltage, current |-> data.pv1_current,
                    day_energy |-> data.pv1_day_energy,
                    total_energy |-> data.pv1_total_energy]],
       [measurement |-> "dc", tags |-> <<"pv2">>,
        fields |-> [voltage |-> data.pv2_voltage, current |-> data.pv2_current,
                    day_energy |-> data.pv2_day_energy,
                    total_energy |-> data.pv2_total_energy]] >>

(***************************************************************************)
(* The environment: what the device and the network may deliver            *)
(***************************************************************************)

\* n registers all holding the 16-bit value v
RegData(n, v) == [i \in 1..(2 * n) |-> IF i % 2 = 1 THEN v \div 256 ELSE v % 256]

\* a well-formed response frame: address, function 3, byte count, the data, and the
\* CRC-16/MODBUS of all that, low byte first
ResponseFrame(data) ==
    LET body == <<1, 3, Len(data) % 256>> \o data
        crc == modbus_crc16(body)
    IN  body \o <<crc % 256, crc \div 256>>

\* the AT reply carrying a frame: "+ok=", its hex text, and a four byte trailer
AtReply(frame) == OkPrefix \o hex(frame) \o <<13, 10, 13, 10>>

GoodFrame == ResponseFrame(RegData(LastReg - FirstReg + 1, 1))

\* a frame whose registers are all zero: pv2_total_energy is not positive
ZeroFrame == ResponseFrame(RegData(LastReg - FirstReg + 1, 0))

\* GoodFrame with one data byte changed
BadCrcFrame == [GoodFrame EXCEPT ![10] = 7]

\* GoodFrame without its last byte
ShortFrame == SubSeq(GoodFrame, 1, Len(GoodFrame) - 1)

\* the reply with a 0x10 byte inserted after every 64 bytes
RECURSIVE Padded(_)
Padded(s) == IF Len(s) <= 64 THEN s ELSE SubSeq(s, 1, 64) \o <<16>> \o Padded(SubSeq(s, 65, Len(s)))

\* the datagrams a recv may return
Datagrams ==
    { AtReply(GoodFrame), AtReply(ZeroFrame), AtReply(BadCrcFrame), AtReply(ShortFrame),
      Padded(AtReply(GoodFrame)),
      NoDataPrefix, NoDataPrefix \o <<13, 10, 13, 10>>,
      ErrPrefix \o <<45, 49, 13, 10, 13, 10>>,
      OkCommand \o <<13, 10, 13, 10>>,
      OkPrefix \o <<122, 122, 13, 10, 13, 10>>,
      <<>> }

\* what one recv(1024) may do
RecvOutcomes ==
    { [kind |-> "data", data |-> d] : d \in Datagrams }
        \cup { [kind |-> k, data |-> <<>>] : k \in {"timeout", "oserror", "error"} }

\* what store_in_influxdb may meet: no such bucket, a failing write, a write
StoreOutcomes == {"no_bucket", "error", "written"}

(***************************************************************************)
(* Actions of a call of send_request                                       *)
(***************************************************************************)

rest == <<twin, calls, mpc, response, fields, exit_status, store_calls, sink, codec, tibber, net>>

CreateSocket ==
    /\ conn.pc = "create"
    /\ \E ok \in BOOLEAN : conn' = create_socket(conn, ok)
    /\ UNCHANGED rest

Authenticate ==
    /\ conn.pc = "auth_send"
    /\ \E ok \in BOOLEAN : conn' = authenticate(conn, ok)
    /\ UNCHANGED rest

ReceiveAttempt ==
    /\ conn.pc \in {"auth_recv", "resp_recv"}
    /\ conn.attempts > 0
    /\ \E o \in RecvOutcomes : conn' = receive_attempt(conn, o)
    /\ UNCHANGED rest

SendOk ==
    /\ conn.pc = "ok_send"
    /\ \E ok \in BOOLEAN : conn' = send_ok(conn, ok)
    /\ UNCHANGED rest

SendInvData ==
    /\ conn.pc = "inv_send"
    /\ \E ok \in BOOLEAN : conn' = send_invdata(conn, ok)
    /\ UNCHANGED rest

Classify ==
    /\ conn.pc = "classify"
    /\ conn' = classify(conn)
    /\ UNCHANGED rest

Deauthenticate ==
    /\ conn.pc = "deauth"
    /\ \E ok \in BOOLEAN : conn' = deauthenticate(conn, ok)
    /\ UNCHANGED rest

ExceptClause ==
    /\ conn.pc = "except"
    /\ conn' = except_clause(conn)
    /\ UNCHANGED rest

FinallyClause ==
    /\ conn.pc = "finally"
    /\ conn' = finally_clause(conn)
    /\ UNCHANGED rest

(***************************************************************************)
(* The smart meter script (src/tibber_raw.py)                              *)
(***************************************************************************)

\* the hex text of an OBIS identifier 01 00 c d 00 ff, as smllib gives it
Tag(c, d) == hex(<<1, 0, c, d, 0, 255>>)

\* "0100600100ff", the tag of the record that carries the meter number
IdentityTag == Tag(96, 1)

\* obis_mapping; per is the reciprocal of the scale (scale 0.0001 is per 10000)
obis_mapping ==
    (Tag(1, 8) :> [name |-> "energy_total_import", per |-> 10000])
    @@ (Tag(2, 8) :> [name |-> "energy_total_export", per |-> 10000])
    @@ (Tag(16, 7) :> [name |-> "power_total", per |-> 1])
    @@ (Tag(36, 7) :> [name |-> "power_l1", per |-> 1])
    @@ (Tag(56, 7) :> [name |-> "power_l2", per |-> 1])
    @@ (Tag(76, 7) :> [name |-> "power_l3", per |-> 1])
    @@ (Tag(31, 7) :> [name |-> "current_l1", per |-> 100])
    @@ (Tag(51, 7) :> [name |-> "current_l2", per |-> 100])
    @@ (Tag(71, 7) :> [name |-> "current_l3", per |-> 100])
    @@ (Tag(32, 7) :> [name |-> "voltage_l1", per |-> 10])
    @@ (Tag(52, 7) :> [name |-> "voltage_l2", per |-> 10])
    @@ (Tag(72, 7) :> [name |-> "voltage_l3", per |-> 10])
    @@ (Tag(14, 7) :> [name |-> "frequency", per |-> 10])

\* needle in hay, on str: needle is a substring of hay
contains(hay, needle) ==
    \E k \in 0..(Len(hay) - Len(needle)) : SubSeq(hay, k + 1, k + Len(needle)) = needle

\* round(value * scale, 3) in thousandths, scale being 1 / per, for an integer value
\* that is not halfway between two thousandths
scaled(value, per) ==
    IF per <= 1000 THEN value * (1000 \div per)
    ELSE (value * 1000 + (per \div 2)) \div per

RECURSIVE parse_int(_, _)
\* int(text, base) for a text of digits; -1 stands for the ValueError raised for an
\* empty text or another character
parse_int(text, base) ==
    IF text = <<>> THEN -1
    ELSE LET d == HexVal(text[Len(text)])
             front == SubSeq(text, 1, Len(text) - 1)
             high == IF front = <<>> THEN 0 ELSE parse_int(front, base)
         IN  IF d < 0 \/ d >= base \/ high < 0 THEN -1 ELSE high * base + d

\* the meter number parsed from the value of the identity record (lines 171-176);
\* None stands for the ValueError raised by int or fromhex (the texts are ASCII)
parse_meter(value) ==
    LET obis_value == Slice(value, 2, Len(value))
        meter_counter == parse_int(Slice(obis_value, 0, 2), 10)
        meter_man == fromhex(Slice(obis_value, 2, 8))
        meter_unk == Slice(obis_value, 8, 11)
        meter_number == parse_int(Slice(obis_value, 11, Len(obis_value)), 16)
    IN  IF meter_counter < 0 \/ meter_man = None \/ meter_number < 0 THEN None
        ELSE decimal(meter_counter) \o meter_man \o meter_unk \o decimal(meter_number)

\* the body of the record loop with a mapped value stored only under a new name
map_record_keepfirst(t, obis) ==
    IF contains(IdentityTag, obis.obis)
    THEN LET meter == parse_meter(obis.text)
         IN  IF meter = None THEN [t EXCEPT !.pc = "raised"]
             ELSE [t EXCEPT !.meter = meter, !.i = @ + 1]
    ELSE IF obis.obis \in DOMAIN obis_mapping
    THEN LET m == obis_mapping[obis.obis]
         IN  [t EXCEPT !.values = @ @@ (m.name :> scaled(obis.value, m.per)), !.i = @ + 1]
    ELSE [t EXCEPT !.i = @ + 1]

\* the body of the record loop for one record: the identity record sets meter (or
\* raises), a mapped record sets values[name], any other is passed over
map_record(t, obis) ==
    IF contains(IdentityTag, obis.obis)
    THEN LET meter == parse_meter(obis.text)
         IN  IF meter = None THEN [t EXCEPT !.pc = "raised"]
             ELSE [t EXCEPT !.meter = meter, !.i = @ + 1]
    ELSE IF obis.obis \in DOMAIN obis_mapping
    THEN LET m == obis_mapping[obis.obis]
         IN  [t EXCEPT !.values = (m.name :> scaled(obis.value, m.per)) @@ @, !.i = @ + 1]
    ELSE [t EXCEPT !.i = @ + 1]

\* the bytes of one HTTP response body as the stream reader sees them: whether they
\* hold the start sequence of a frame, the records they carry, and the end of a frame
\* ("good": end sequence with the right CRC, "bad": with a wrong one, "none": no end)
Chunk(head, entries, tail) == [head |-> head, entries |-> entries, tail |-> tail]

\* b"": a body without bytes
EmptyChunk == Chunk(FALSE, <<>>, "none")

\* stream = SmlStreamReader(); stream.add(data); stream.get_frame(): "none" when the
\* bytes hold no complete frame, "crc" when it raises CrcError, "frame" otherwise
get_frame(data) ==
    IF ~data.head \/ data.tail = "none" THEN "none"
    ELSE IF data.tail = "bad" THEN "crc"
    ELSE "frame"

\* what one call of get_data meets: requests.get raises, a status other than 200, or
\* status 200 with a body
Outcome(kind, content) == [kind |-> kind, content |-> content]

\* an iteration in which an error of requests.get leaves the script
poll_iteration_crash(t, o) ==
    LET t1 == [t EXCEPT !.polls = @ + 1, !.trace = Append(@, [ev |-> "poll", got |-> o])]
    IN  IF o.kind = "raise" THEN [t1 EXCEPT !.pc = "raised"]
        ELSE IF o.kind = "status" \/ o.content = EmptyChunk THEN [t1 EXCEPT !.pc = "sleep"]
        ELSE IF get_frame(o.content) \in {"crc", "none"} THEN t1
        ELSE [t1 EXCEPT !.pc = "map",
                        !.sml_frame = [present |-> TRUE, entries |-> o.content.entries],
                        !.obis_values = o.content.entries]

\* one iteration of the polling loop up to its sleep, and on break the statements
\* before the record loop: get_data raised (except Exception), returned None or b""
\* (the sleep is next), returned bytes with a wrong CRC (except CrcError), with no
\* complete frame, or with a frame (break, obis_values = sml_frame.get_obis())
poll_iteration(t, o) ==
    LET t1 == [t EXCEPT !.polls = @ + 1, !.trace = Append(@, [ev |-> "poll", got |-> o])]
    IN  IF o.kind = "raise" THEN t1
        ELSE IF o.kind = "status" \/ o.content = EmptyChunk THEN [t1 EXCEPT !.pc = "sleep"]
        ELSE IF get_frame(o.content) \in {"crc", "none"} THEN t1
        ELSE [t1 EXCEPT !.pc = "map",
                        !.sml_frame = [present |-> TRUE, entries |-> o.content.entries],
                        !.obis_values = o.content.entries]

\* time.sleep(0.1), and back to the top of the loop
sleep(t) ==
    [t EXCEPT !.pc = "poll",
              !.trace = Append(@, [ev |-> "sleep", got |-> Outcome("none", EmptyChunk)])]

\* store_in_influxdb(values, ..., meter) of tibber_raw.py: one point is written unless
\* the bucket is missing or the client raises
store_measurements(t, o) ==
    [t EXCEPT !.pc = "done",
              !.stored = IF o = "written"
                         THEN Append(@, [measurement |-> "meter_live", meter |-> t.meter,
                                         fields |-> t.values])
                         ELSE @]

(***************************************************************************)
(* Spec: one run of the script                                             *)
(***************************************************************************)

NoCodec == [pc |-> "off", first_reg |-> 0, last_reg |-> 0, frame |-> <<>>, cut |-> 0,
            changed |-> 0, carried |-> FALSE, extracted |-> <<>>, error |-> "",
            registers |-> <<>>]

\* the datagrams of the device on their way to the socket of a call: inflight are
\* sent and not yet there, arrived wait in the socket, delivered is all that arrived
\* and taken all that recv returned, in order
NoNet == [inflight |-> <<>>, arrived |-> <<>>, delivered |-> <<>>, taken |-> <<>>]

\* the smart meter script before it runs: pc is its position (the polling loop, the
\* sleep, the record loop), trace the polls and sleeps so far, i the number of records
\* the record loop has passed
NoTibber ==
    [pc |-> "off", polls |-> 0, trace |-> <<>>,
     sml_frame |-> [present |-> FALSE, entries |-> <<>>], obis_values |-> <<>>, i |-> 0,
     values |-> <<>>, meter |-> <<>>, stored |-> <<>>]

Init ==
    /\ conn = NewConnector(TRUE)
    /\ twin = NewConnector(TRUE)
    /\ calls = 0
    /\ mpc = "start"
    /\ response = <<>>
    /\ fields = <<>>
    /\ exit_status = 0
    /\ store_calls = 0
    /\ sink = <<>>
    /\ codec = NoCodec
    /\ tibber = NoTibber
    /\ net = NoNet

\* response = read_holding_registers(at_connector, 60, 112), up to send_request
ReadHoldingRegisters ==
    /\ mpc = "start"
    /\ conn' = send_request(conn, request_frame(FirstReg, LastReg))
    /\ calls' = calls + 1
    /\ mpc' = "reading"
    /\ UNCHANGED <<twin, response, fields, exit_status, store_calls, sink, codec, tibber, net>>

\* a script that reads again when there is no response
main_return_retry(parsed, result) ==
    IF result = None
    THEN [mpc |-> "start", exit_status |-> 0, response |-> <<>>,
          level |-> "WARNING", msg |-> "No response received"]
    ELSE IF parsed.error # ""
    THEN [mpc |-> "exited", exit_status |-> 0, response |-> <<>>,
          level |-> "ERROR", msg |-> "Failed to read data over AT command"]
    ELSE [mpc |-> "decode", exit_status |-> 0, response |-> parsed.registers,
          level |-> "", msg |-> ""]

\* what the script does with the return of send_request: read_holding_registers
\* returns None or parses; the script leaves with -1 on no response, and its own
\* except clause logs an error raised by the parser
main_return(parsed, result) ==
    IF result = None
    THEN [mpc |-> "exited", exit_status |-> -1, response |-> <<>>,
          level |-> "WARNING", msg |-> "No response received"]
    ELSE IF parsed.error # ""
    THEN [mpc |-> "exited", exit_status |-> 0, response |-> <<>>,
          level |-> "ERROR", msg |-> "Failed to read data over AT command"]
    ELSE IF parsed.registers = <<>>
    THEN [mpc |-> "exited", exit_status |-> -1, response |-> <<>>,
          level |-> "WARNING", msg |-> "No response received"]
    ELSE [mpc |-> "decode", exit_status |-> 0, response |-> parsed.registers,
          level |-> "", msg |-> ""]

ReadReturn ==
    /\ mpc = "reading"
    /\ conn.pc = "returned"
    /\ LET parsed == IF conn.result = None
                     THEN [error |-> "", registers |-> <<>>]
                     ELSE parse_modbus_read_holding_registers_response(
                              conn.result, FirstReg, LastReg)
           r == main_return(parsed, conn.result)
       IN  /\ mpc' = r.mpc
           /\ exit_status' = r.exit_status
           /\ response' = r.response
           /\ conn' = IF r.msg = "" THEN [conn EXCEPT !.pc = "idle"]
                      ELSE Logged([conn EXCEPT !.pc = "idle"], r.level, r.msg)
    /\ UNCHANGED <<twin, calls, fields, store_calls, sink, codec, tibber, net>>

\* the sanity check of the script: the status it exits with, or "store"
sanity_check(f) == IF f.pv2_total_energy > 0 THEN "store" ELSE "exited"

\* fields = get_fields_from_response(response) and the sanity check
Decode ==
    /\ mpc = "decode"
    /\ fields' = get_fields_from_response(response)
    /\ mpc' = sanity_check(fields')
    /\ exit_status' = IF mpc' = "exited" THEN -1 ELSE exit_status
    /\ UNCHANGED <<conn, twin, calls, response, store_calls, sink, codec, tibber, net>>

\* store_in_influxdb(fields, ...)
Store ==
    /\ mpc = "store"
    /\ store_calls' = store_calls + 1
    /\ \E o \in StoreOutcomes :
          /\ sink' = IF o = "written" THEN Append(sink, influx_data(fields)) ELSE sink
          /\ conn' = CASE o = "no_bucket" -> Logged(conn, "ERROR", "Bucket does not exist")
                       [] o = "error" -> Logged(conn, "ERROR", "An error occurred while writing to InfluxDB")
                       [] o = "written" -> conn
    /\ mpc' = "exited"
    /\ UNCHANGED <<twin, calls, response, fields, exit_status, codec, tibber, net>>

Session ==
    \/ CreateSocket \/ Authenticate \/ ReceiveAttempt \/ SendOk \/ SendInvData
    \/ Classify \/ Deauthenticate \/ ExceptClause \/ FinallyClause

Next == Session \/ ReadHoldingRegisters \/ ReadReturn \/ Decode \/ Store

Spec == Init /\ [][Next]_vars

(***************************************************************************)
(* SpecCalls: a caller that calls send_request on one connector repeatedly *)
(***************************************************************************)

\* the number of calls of send_request the caller makes
MaxCalls == 3

InitCalls ==
    /\ conn = NewConnector(TRUE)
    /\ twin = NewConnector(TRUE)
    /\ calls = 0
    /\ mpc = "caller"
    /\ response = <<>>
    /\ fields = <<>>
    /\ exit_status = 0
    /\ store_calls = 0
    /\ sink = <<>>
    /\ codec = NoCodec
    /\ tibber = NoTibber
    /\ net = NoNet

Call ==
    /\ mpc = "caller"
    /\ conn.pc \in {"idle", "returned"}
    /\ calls < MaxCalls
    /\ conn' = send_request(conn, request_frame(FirstReg, LastReg))
    /\ calls' = calls + 1
    /\ UNCHANGED <<twin, mpc, response, fields, exit_status, store_calls, sink, codec, tibber, net>>

NextCalls == Session \/ Call

SpecCalls == InitCalls /\ [][NextCalls]_vars

(***************************************************************************)
(* SpecTwin: two connectors that differ in the reachability flag, called   *)
(* together and facing the same socket and network behaviour               *)
(***************************************************************************)

\* what the socket layer and the network do at one step: whether the socket opens,
\* whether a sendto succeeds, what a recv does
Behaviours == [sockOk : BOOLEAN, sendOk : BOOLEAN, recv : RecvOutcomes]

\* the step send_request takes next in connector s under behaviour e
Step(s, e) ==
    CASE s.pc = "create" -> create_socket(s, e.sockOk)
      [] s.pc = "auth_send" -> authenticate(s, e.sendOk)
      [] s.pc \in {"auth_recv", "resp_recv"} -> receive_attempt(s, e.recv)
      [] s.pc = "ok_send" -> send_ok(s, e.sendOk)
      [] s.pc = "inv_send" -> send_invdata(s, e.sendOk)
      [] s.pc = "classify" -> classify(s)
      [] s.pc = "deauth" -> deauthenticate(s, e.sendOk)
      [] s.pc = "except" -> except_clause(s)
      [] s.pc = "finally" -> finally_clause(s)
      [] OTHER -> s

InCall(s) == s.pc \notin {"idle", "returned", "raised"}

\* behaviour e names one outcome for each thing the next steps of s and t consult, and
\* the first outcome for what neither consults
Consulted(e, s, t) ==
    LET pcs == {s.pc, t.pc}
    IN  /\ "create" \in pcs \/ e.sockOk
        /\ pcs \cap {"auth_send", "ok_send", "inv_send", "deauth"} # {} \/ e.sendOk
        /\ pcs \cap {"auth_recv", "resp_recv"} # {} \/ e.recv.kind = "timeout"

\* the number of calls made on the two connectors together
MaxTwinCalls == 2

InitTwin ==
    /\ conn = NewConnector(TRUE)
    /\ twin = NewConnector(TRUE)
    /\ calls = 0
    /\ mpc = "twins"
    /\ response = <<>>
    /\ fields = <<>>
    /\ exit_status = 0
    /\ store_calls = 0
    /\ sink = <<>>
    /\ codec = NoCodec
    /\ tibber = NoTibber
    /\ net = NoNet

twinrest == <<mpc, response, fields, exit_status, store_calls, sink, codec, tibber, net>>

\* the earlier life of one of the two: a call of its own in which the socket did not
\* open, which leaves it unreachable
TwinFailedCall ==
    /\ mpc = "twins"
    /\ calls = 0
    /\ conn.pc = "idle" /\ twin.pc = "idle"
    /\ \E first \in BOOLEAN :
          LET failed(s) == create_socket(send_request(s, request_frame(FirstReg, LastReg)), FALSE)
          IN  IF first THEN conn' = failed(conn) /\ twin' = twin
              ELSE twin' = failed(twin) /\ conn' = conn
    /\ UNCHANGED <<calls, twinrest>>

\* both are called with the same request
TwinCall ==
    /\ mpc = "twins"
    /\ ~InCall(conn) /\ ~InCall(twin)
    /\ calls < MaxTwinCalls
    /\ conn' = send_request(conn, request_frame(FirstReg, LastReg))
    /\ twin' = send_request(twin, request_frame(FirstReg, LastReg))
    /\ calls' = calls + 1
    /\ UNCHANGED twinrest

\* both take their next step under the same behaviour of socket and network
TwinStep ==
    /\ mpc = "twins"
    /\ InCall(conn) \/ InCall(twin)
    /\ \E e \in Behaviours :
          Consulted(e, conn, twin) /\ conn' = Step(conn, e) /\ twin' = Step(twin, e)
    /\ UNCHANGED <<calls, twinrest>>

NextTwin == TwinFailedCall \/ TwinCall \/ TwinStep

SpecTwin == InitTwin /\ [][NextTwin]_vars

(***************************************************************************)
(* SpecCodec: the response parser on valid frames and what is cut from them *)
(***************************************************************************)

\* the register addresses of the codec runs are 0..MaxReg
MaxReg == 2

\* the 16-bit values the first register of a codec run holds
RegValues == {0, 1, 4660, 65535}

\* the data of n registers, big-endian, that hold v, v + 1, ... (modulo 2^16)
RegRamp(n, v) ==
    [i \in 1..(2 * n) |->
        LET r == (v + ((i - 1) \div 2)) % 65536
        IN  IF i % 2 = 1 THEN r \div 256 ELSE r % 256]

InitCodec ==
    /\ conn = NewConnector(TRUE)
    /\ twin = NewConnector(TRUE)
    /\ calls = 0
    /\ mpc = "codec"
    /\ response = <<>>
    /\ fields = <<>>
    /\ exit_status = 0
    /\ store_calls = 0
    /\ sink = <<>>
    /\ \E first_reg \in 0..MaxReg, last_reg \in 0..MaxReg, v \in RegValues :
          /\ first_reg <= last_reg
          /\ codec = [pc |-> "frame", first_reg |-> first_reg, last_reg |-> last_reg,
                      frame |-> ResponseFrame(RegRamp(last_reg - first_reg + 1, v)),
                      cut |-> 0, changed |-> 0, carried |-> FALSE, extracted |-> <<>>,
                      error |-> "", registers |-> <<>>]
    /\ tibber = NoTibber
    /\ net = NoNet

codecrest ==
    <<conn, twin, calls, mpc, response, fields, exit_status, store_calls, sink, tibber, net>>

\* one byte is lost from the end of the frame
Truncate ==
    /\ codec.pc = "frame"
    /\ codec.changed = 0
    /\ codec.frame # <<>>
    /\ codec' = [codec EXCEPT !.frame = SubSeq(@, 1, Len(@) - 1), !.cut = @ + 1]
    /\ UNCHANGED codecrest

\* parse_modbus_read_holding_registers_response(frame, first_reg, last_reg)
ParseFrame ==
    /\ codec.pc = "frame"
    /\ LET r == parse_modbus_read_holding_registers_response(
                    codec.frame, codec.first_reg, codec.last_reg)
       IN  codec' = [codec EXCEPT !.pc = "parsed", !.error = r.error,
                                  !.registers = r.registers]
    /\ UNCHANGED codecrest

\* one byte of the data region of the frame (the bytes the CRC covers) takes another
\* value; changed is its position
Corrupt ==
    /\ codec.pc = "frame"
    /\ codec.cut = 0 /\ codec.changed = 0
    /\ \E i \in 1..(Len(codec.frame) - 2), b \in Byte :
          /\ b # codec.frame[i]
          /\ codec' = [codec EXCEPT !.frame[i] = b, !.changed = i]
    /\ UNCHANGED codecrest

NextCodec == Truncate \/ Corrupt \/ ParseFrame

SpecCodec == InitCodec /\ [][NextCodec]_vars

(***************************************************************************)
(* SpecWrap: a frame carried in an AT reply, extracted and parsed           *)
(***************************************************************************)

\* the values the first register of a wrap run holds: those of a codec run, and
\* values for which the CRC of a frame of one register is 0x0000, 0x8500 and 0x00b8
WrapValues == RegValues \cup {41265, 23554, 240}

InitWrap ==
    /\ conn = NewConnector(TRUE)
    /\ twin = NewConnector(TRUE)
    /\ calls = 0
    /\ mpc = "wrap"
    /\ response = <<>>
    /\ fields = <<>>
    /\ exit_status = 0
    /\ store_calls = 0
    /\ sink = <<>>
    /\ \E first_reg \in 0..MaxReg, last_reg \in 0..MaxReg, v \in WrapValues :
          /\ first_reg <= last_reg
          /\ codec = [pc |-> "frame", first_reg |-> first_reg, last_reg |-> last_reg,
                      frame |-> ResponseFrame(RegRamp(last_reg - first_reg + 1, v)),
                      cut |-> 0, changed |-> 0, carried |-> FALSE, extracted |-> <<>>,
                      error |-> "", registers |-> <<>>]
    /\ tibber = NoTibber
    /\ net = NoNet

\* the frame arrives in the reply "+ok=<hex>" with its trailer: send_request extracts
\* it and read_holding_registers parses what was extracted
CarryAndParse ==
    /\ codec.pc = "frame"
    /\ LET extracted == extract_modbus_respose(AtReply(codec.frame))
           r == parse_modbus_read_holding_registers_response(
                    extracted, codec.first_reg, codec.last_reg)
       IN  codec' = [codec EXCEPT !.pc = "parsed", !.carried = TRUE,
                                  !.extracted = extracted, !.error = r.error,
                                  !.registers = r.registers]
    /\ UNCHANGED codecrest

NextWrap == Truncate \/ CarryAndParse

SpecWrap == InitWrap /\ [][NextWrap]_vars

(***************************************************************************)
(* SpecDecoder: the register readers on a map of two registers             *)
(***************************************************************************)

\* the values of a 16-bit register
Word == 0..65535

\* the values the register after the one read holds in a decoder run
NextWords == {0, 1, 65535}

\* a register as the parser stores it: two bytes, high byte first
word_bytes(v) == <<v \div 256, v % 256>>

InitDecoder ==
    /\ conn = NewConnector(TRUE)
    /\ twin = NewConnector(TRUE)
    /\ calls = 0
    /\ mpc = "decoder"
    /\ \E v \in Word, w \in NextWords :
          response = (0 :> word_bytes(v) @@ 1 :> word_bytes(w))
    /\ fields = <<>>
    /\ exit_status = 0
    /\ store_calls = 0
    /\ sink = <<>>
    /\ codec = NoCodec
    /\ tibber = NoTibber
    /\ net = NoNet

decoderrest == <<conn, twin, calls, mpc, response, exit_status, store_calls, sink, codec, tibber, net>>

\* read_unit16(response, 0) and read_int16(response, 0)
Read16 ==
    /\ mpc = "decoder"
    /\ fields = <<>>
    /\ fields' = [width |-> 16, unit |-> read_unit16(response, 0),
                  int |-> read_int16(response, 0)]
    /\ UNCHANGED decoderrest

\* read_unit32(response, 0) and read_int32(response, 0)
Read32 ==
    /\ mpc = "decoder"
    /\ fields = <<>>
    /\ fields' = [width |-> 32, unit |-> read_unit32(response, 0),
                  int |-> read_int32(response, 0)]
    /\ UNCHANGED decoderrest

NextDecoder == Read16 \/ Read32

SpecDecoder == InitDecoder /\ [][NextDecoder]_vars

(***************************************************************************)
(* SpecExtract: extract_modbus_respose on AT responses                     *)
(***************************************************************************)

\* the longest text between the wrapper bytes of an AT response of an extract run
MaxHexLen == 8

\* the bytes of that text: the digits 0 and 1 and the padding byte 0x10
TextBytes == {48, 49, 16}

\* what surrounds the text: the "+ok=" prefix and the four byte trailer, the same with
\* a padding byte in each, or nothing
Wrappers ==
    {[pre |-> OkPrefix, post |-> <<13, 10, 13, 10>>],
     [pre |-> <<16>> \o OkPrefix, post |-> <<13, 10, 16, 13, 10>>],
     [pre |-> <<>>, post |-> <<>>]}

InitExtract ==
    /\ \E n \in 0..MaxHexLen :
          \E text \in [1..n -> TextBytes], w \in Wrappers :
             conn = [NewConnector(TRUE) EXCEPT !.at_response = w.pre \o text \o w.post]
    /\ twin = NewConnector(TRUE)
    /\ calls = 0
    /\ mpc = "extract"
    /\ response = <<>>
    /\ fields = <<>>
    /\ exit_status = 0
    /\ store_calls = 0
    /\ sink = <<>>
    /\ codec = NoCodec
    /\ tibber = NoTibber
    /\ net = NoNet

\* modbus_response = self.extract_modbus_respose(at_response); None stands for the
\* error it raises
Extract ==
    /\ mpc = "extract"
    /\ conn' = [conn EXCEPT !.modbus_response = extract_modbus_respose(conn.at_response)]
    /\ mpc' = "extracted"
    /\ UNCHANGED <<twin, calls, response, fields, exit_status, store_calls, sink, codec, tibber, net>>

NextExtract == Extract

SpecExtract == InitExtract /\ [][NextExtract]_vars

(***************************************************************************)
(* SpecPoll: one run of the smart meter script                             *)
(***************************************************************************)

\* the number of polls a run of the script makes at most
MaxPolls == 4

\* an OBIS record whose value is a number
Record(obis, value) == [obis |-> obis, value |-> value, text |-> <<>>]

\* an OBIS record whose value is a text; it is held apart from the numbers
TextRecord(obis, text) == [obis |-> obis, value |-> 0, text |-> text]

\* the identity record of a meter with counter 01, manufacturer "ABC", segment "123"
\* and number 0x01: its value is the text "0a0141424312301"
GoodIdentity ==
    TextRecord(IdentityTag, <<48, 97, 48, 49, 52, 49, 52, 50, 52, 51, 49, 50, 51, 48, 49>>)

\* an identity record whose value is the text "0azz": the counter is no number
BadIdentity == TextRecord(IdentityTag, <<48, 97, 122, 122>>)

\* a record whose tag "0100603200ff" is not in obis_mapping
UnmappedRecord == TextRecord(Tag(96, 50), <<48, 49>>)

\* the records of the frame the meter sends in a poll run
SampleRecords ==
    <<GoodIdentity, Record(Tag(1, 8), 1234), UnmappedRecord, Record(Tag(16, 7), -3)>>

\* a complete frame, its first and its second part, and the frame with a wrong CRC
FullFrame == Chunk(TRUE, SampleRecords, "good")
FirstPart == Chunk(TRUE, SubSeq(SampleRecords, 1, 2), "none")
SecondPart == Chunk(FALSE, SubSeq(SampleRecords, 3, 4), "good")
BadCrcChunk == Chunk(TRUE, SampleRecords, "bad")

\* what a call of get_data can meet
PollOutcomes ==
    {Outcome("raise", EmptyChunk), Outcome("status", EmptyChunk)}
    \cup {Outcome("content", c) : c \in {EmptyChunk, FullFrame, FirstPart, SecondPart, BadCrcChunk}}

InitPoll ==
    /\ conn = NewConnector(TRUE)
    /\ twin = NewConnector(TRUE)
    /\ calls = 0
    /\ mpc = "tibber"
    /\ response = <<>>
    /\ fields = <<>>
    /\ exit_status = 0
    /\ store_calls = 0
    /\ sink = <<>>
    /\ codec = NoCodec
    /\ tibber = [NoTibber EXCEPT !.pc = "poll"]
    /\ net = NoNet

tibberrest ==
    <<conn, twin, calls, mpc, response, fields, exit_status, store_calls, sink, codec, net>>

\* one iteration of the while loop
Poll ==
    /\ tibber.pc = "poll"
    /\ tibber.polls < MaxPolls
    /\ \E o \in PollOutcomes : tibber' = poll_iteration(tibber, o)
    /\ UNCHANGED tibberrest

Sleep ==
    /\ tibber.pc = "sleep"
    /\ tibber' = sleep(tibber)
    /\ UNCHANGED tibberrest

\* one iteration of the record loop
MapRecord ==
    /\ tibber.pc = "map"
    /\ tibber.i < Len(tibber.obis_values)
    /\ tibber' = map_record(tibber, tibber.obis_values[tibber.i + 1])
    /\ UNCHANGED tibberrest

\* the record loop is over: store_in_influxdb
StoreMeasurements ==
    /\ tibber.pc = "map"
    /\ tibber.i = Len(tibber.obis_values)
    /\ \E o \in StoreOutcomes : tibber' = store_measurements(tibber, o)
    /\ UNCHANGED tibberrest

NextPoll == Poll \/ Sleep \/ MapRecord \/ StoreMeasurements

SpecPoll == InitPoll /\ [][NextPoll]_vars

(***************************************************************************)
(* SpecObis: the record loop on the records of any frame                   *)
(***************************************************************************)

\* the number of records of a frame at most
MaxRecords == 3

\* the records a frame is made of
ObisRecords ==
    {GoodIdentity, BadIdentity, UnmappedRecord,
     Record(Tag(1, 8), 7), Record(Tag(1, 8), 1234),
     Record(Tag(16, 7), -3), Record(Tag(16, 7), 1234)}

InitObis ==
    /\ conn = NewConnector(TRUE)
    /\ twin = NewConnector(TRUE)
    /\ calls = 0
    /\ mpc = "tibber"
    /\ response = <<>>
    /\ fields = <<>>
    /\ exit_status = 0
    /\ store_calls = 0
    /\ sink = <<>>
    /\ codec = NoCodec
    /\ \E n \in 0..MaxRecords :
          \E entries \in [1..n -> ObisRecords] :
             tibber = [NoTibber EXCEPT !.pc = "map",
                                       !.sml_frame = [present |-> TRUE, entries |-> entries],
                                       !.obis_values = entries]
    /\ net = NoNet

NextObis == MapRecord \/ StoreMeasurements

SpecObis == InitObis /\ [][NextObis]_vars

(***************************************************************************)
(* SpecNet: calls of send_request against a device whose replies travel    *)
(* to the socket of the call and wait there until a recv takes them        *)
(***************************************************************************)

\* the number of calls of send_request the caller makes
MaxNetCalls == 2

\* a datagram of the device and the command it answers
Reply(data, answers) == [data |-> data, answers |-> answers]

\* what the device may answer to the authenticate command: its identification
\* "1,2", a bare "+ok", a text that begins with "+ok=", an empty datagram
AuthReplies ==
    { <<49, 44, 50>>,
      OkCommand \o <<13, 10, 13, 10>>,
      OkPrefix \o <<122, 122, 13, 10, 13, 10>>,
      <<>> }

\* what the device answers to AT+INVDATA: the registers asked for
InvReplies == { AtReply(GoodFrame) }

\* the device gets a command: it sends one of replies, or nothing
device_replies(n, replies, answers) ==
    { n } \cup { [n EXCEPT !.inflight = Append(@, Reply(d, answers))] : d \in replies }

\* a recv(1024) that returns only a datagram answering the command the receive
\* follows, and drops the others
net_recv_matching(n, phase) ==
    LET wanted == IF phase = "auth_recv" THEN "auth" ELSE "invdata"
        m == SelectSeq(n.arrived, LAMBDA d : d.answers = wanted)
    IN  IF m = <<>>
        THEN [outcome |-> [kind |-> "timeout", data |-> <<>>],
              net |-> [n EXCEPT !.arrived = <<>>]]
        ELSE [outcome |-> [kind |-> "data", data |-> Head(m).data],
              net |-> [n EXCEPT !.arrived = Tail(m),
                                !.taken = Append(@, [data |-> Head(m).data,
                                                     answers |-> Head(m).answers,
                                                     phase |-> phase])]]

\* client_socket.recv(1024) on the socket of the call: the datagram that arrived
\* first, whatever it answers, or a timeout when none waits; phase is the receive
\* that called it
net_recv(n, phase) ==
    IF n.arrived = <<>>
    THEN [outcome |-> [kind |-> "timeout", data |-> <<>>], net |-> n]
    ELSE [outcome |-> [kind |-> "data", data |-> Head(n.arrived).data],
          net |-> [n EXCEPT !.arrived = Tail(@),
                            !.taken = Append(@, [data |-> Head(n.arrived).data,
                                                 answers |-> Head(n.arrived).answers,
                                                 phase |-> phase])]]

netrest == <<twin, mpc, response, fields, exit_status, store_calls, sink, codec, tibber>>

InitNet ==
    /\ conn = NewConnector(TRUE)
    /\ twin = NewConnector(TRUE)
    /\ calls = 0
    /\ mpc = "caller"
    /\ response = <<>>
    /\ fields = <<>>
    /\ exit_status = 0
    /\ store_calls = 0
    /\ sink = <<>>
    /\ codec = NoCodec
    /\ tibber = NoTibber
    /\ net = NoNet

\* a call of send_request: its socket is a new one, nothing waits in it
NetCall ==
    /\ mpc = "caller"
    /\ conn.pc \in {"idle", "returned"}
    /\ calls < MaxNetCalls
    /\ conn' = send_request(conn, request_frame(FirstReg, LastReg))
    /\ calls' = calls + 1
    /\ net' = NoNet
    /\ UNCHANGED netrest

\* __authenticate sends its command; the device answers a command that reached it
NetAuthenticate ==
    /\ conn.pc = "auth_send"
    /\ \E ok \in BOOLEAN :
          /\ conn' = authenticate(conn, ok)
          /\ net' \in (IF ok THEN device_replies(net, AuthReplies, "auth") ELSE { net })
    /\ UNCHANGED <<calls, netrest>>

\* the AT+INVDATA send; the device answers a command that reached it
NetSendInvData ==
    /\ conn.pc = "inv_send"
    /\ \E ok \in BOOLEAN :
          /\ conn' = send_invdata(conn, ok)
          /\ net' \in (IF ok THEN device_replies(net, InvReplies, "invdata") ELSE { net })
    /\ UNCHANGED <<calls, netrest>>

\* a datagram of the device reaches the open socket, at any time after it was sent
Deliver ==
    /\ conn.sock = "open"
    /\ net.inflight # <<>>
    /\ net' = [net EXCEPT !.inflight = Tail(@),
                          !.arrived = Append(@, Head(net.inflight)),
                          !.delivered = Append(@, Head(net.inflight))]
    /\ UNCHANGED <<conn, calls, netrest>>

\* one iteration of the receive loop: recv takes what waits in the socket
NetReceiveAttempt ==
    /\ conn.pc \in {"auth_recv", "resp_recv"}
    /\ conn.attempts > 0
    /\ LET r == net_recv(net, conn.pc)
       IN  /\ conn' = receive_attempt(conn, r.outcome)
           /\ net' = r.net
    /\ UNCHANGED <<calls, netrest>>

NextNet ==
    \/ NetCall
    \/ CreateSocket
    \/ NetAuthenticate
    \/ NetReceiveAttempt
    \/ SendOk
    \/ NetSendInvData
    \/ Deliver
    \/ Classify
    \/ Deauthenticate
    \/ ExceptClause
    \/ FinallyClause

SpecNet == InitNet /\ [][NextNet]_vars

(***************************************************************************)
(* Properties                                                              *)
(***************************************************************************)

\* the call of send_request has ended
Ended(s) == s.pc \in {"returned", "raised"}

\* the socket of the call in progress, or of the last call, was opened
Opened(s) == s.opens # <<>> /\ s.opens[Len(s.opens)]

\* C1: a call of send_request whose socket was opened ends with the socket closed, on
\* every exit path, and every command was sent while the socket was open; the socket
\* is open only inside a call.
C1_SocketReleased ==
    /\ (Ended(conn) /\ Opened(conn)) => conn.sock = "closed"
    /\ conn.sock = "open" => InCall(conn)
    /\ \A i \in 1..Len(conn.sent) : conn.sent[i].sock = "open"

\* an exception was raised after two commands were sent, and the call has returned
C1_Witness ==
    /\ conn.pc = "returned" /\ conn.sock = "closed"
    /\ conn.raised_in = "inv_send" /\ Len(conn.sent) = 2

\* C2 as stated: whichever step raises, send_request returns None and raises nothing.
C2_AnyErrorReturnsNone ==
    (Ended(conn) /\ conn.raised_in # "") => (conn.pc = "returned" /\ conn.result = None)

\* C2 as amended: whichever step raises, no exception leaves send_request; it returns
\* None unless the step that raised is the deauthenticate send, and then it returns the
\* frame already extracted, if there is one.
C2_NoErrorPropagates ==
    /\ conn.pc # "raised"
    /\ (conn.pc = "returned" /\ conn.raised_in \notin {"", "deauth"}) => conn.result = None
    /\ (conn.pc = "returned" /\ conn.raised_in = "deauth") => conn.result = conn.modbus_response

\* the quit command could not be sent after a frame was extracted
C2_Witness ==
    conn.pc = "returned" /\ conn.raised_in = "deauth" /\ conn.result = GoodFrame

\* the result the claim gives for the datagram d of the response receive
C3_Expected(d) ==
    IF d = None \/ d = <<>> \/ startswith(d, <<43, 111, 107, 61, 110, 111, 32, 100, 97, 116, 97>>)
    THEN None
    ELSE IF startswith(d, <<43, 69, 82, 82, 61>>) THEN None
    ELSE IF startswith(d, <<43, 111, 107, 61>>) THEN extract_modbus_respose(d)
    ELSE None

\* C3: the result of send_request is a function of the datagram of the response receive:
\* None for none or "+ok=no data", None for "+ERR=", the extracted frame for another
\* "+ok=", None otherwise; a no-data or error reply raises nothing, and send_request
\* never raises.
C3_ResultFromDatagram ==
    /\ conn.pc # "raised"
    /\ conn.pc = "returned" => conn.result = C3_Expected(conn.at_response)
    /\ (/\ conn.pc = "returned"
        /\ conn.at_response # None
        /\ \/ startswith(conn.at_response, NoDataPrefix)
           \/ startswith(conn.at_response, ErrPrefix))
       => (conn.raised_in = "" /\ Len(conn.sent) = 3)

\* a no-data reply with a trailer was received and the call returned
C3_Witness ==
    /\ conn.pc = "returned"
    /\ conn.at_response = NoDataPrefix \o <<13, 10, 13, 10>>
    /\ conn.result = None

\* the frame send_request returned passes the length check and the CRC check
C4_FrameValid ==
    /\ conn.result # None
    /\ Len(conn.result) >= 3 + 2 * (LastReg - FirstReg + 1) + 2
    /\ modbus_crc16(SubSeq(conn.result, 1, 3 + 2 * (LastReg - FirstReg + 1)))
          = conn.result[3 + 2 * (LastReg - FirstReg + 1) + 1]
              + 256 * conn.result[3 + 2 * (LastReg - FirstReg + 1) + 2]

\* C4: fields are decoded, store_in_influxdb is invoked and the sink is written only
\* with a frame that passed the length check and the CRC check.
C4_StoreOnlyValid ==
    (mpc \in {"decode", "store"} \/ fields # <<>> \/ store_calls > 0 \/ sink # <<>>)
        => C4_FrameValid

\* a valid frame was stored
C4_Witness == mpc = "exited" /\ store_calls = 1 /\ Len(sink) = 1

\* the number of AT+INVDATA commands among the datagrams sent
C5_InvDataSent ==
    Cardinality({i \in 1..Len(conn.sent) :
                    startswith(conn.sent[i].data, <<65, 84, 43, 73, 78, 86, 68, 65, 84, 65, 61>>)})

\* C5: a run calls send_request at most once and sends AT+INVDATA at most once; when
\* send_request returned None the run logs "No response received" and exits with -1
\* without invoking store_in_influxdb.
C5_SingleAttempt ==
    /\ calls <= 1
    /\ C5_InvDataSent <= 1
    /\ (mpc # "reading" /\ calls = 1 /\ conn.result = None)
          => /\ mpc = "exited"
             /\ exit_status = -1
             /\ store_calls = 0
             /\ conn.log[Len(conn.log)] = [level |-> "WARNING", msg |-> "No response received"]

\* the command was sent, no response came, and the run has exited
C5_Witness ==
    /\ mpc = "exited" /\ exit_status = -1
    /\ C5_InvDataSent = 1 /\ conn.recvs = 2 * Attempts /\ conn.result = None

\* the messages of __create_socket in a log
C6_ReachabilityLog(log) ==
    LET About(r) == r.msg \in {"Could not open socket", "Re-connected to socket"}
    IN  SelectSeq(log, About)

RECURSIVE C6_Expected(_, _)
\* what the claim has logged for the outcomes opens of socket creation, the outcome
\* before them being prev (TRUE before the first call)
C6_Expected(opens, prev) ==
    IF opens = <<>> THEN <<>>
    ELSE (IF ~Head(opens) /\ prev THEN <<[level |-> "WARNING", msg |-> "Could not open socket"]>>
          ELSE IF ~Head(opens) /\ ~prev THEN <<[level |-> "DEBUG", msg |-> "Could not open socket"]>>
          ELSE IF Head(opens) /\ ~prev THEN <<[level |-> "INFO", msg |-> "Re-connected to socket"]>>
          ELSE <<>>)
         \o C6_Expected(Tail(opens), Head(opens))

\* C6: over the calls of send_request on one connector the reachability messages are: a
\* WARNING for a failure that follows a success (or is the first call), a DEBUG for a
\* failure that follows a failure, an INFO for a success that follows a failure, and
\* nothing for a success that follows a success.
C6_ReachabilityLogging ==
    C6_ReachabilityLog(conn.log) = C6_Expected(conn.opens, TRUE)

\* two failures, then a success
C6_Witness ==
    /\ conn.opens = <<FALSE, FALSE, TRUE>>
    /\ Len(C6_ReachabilityLog(conn.log)) = 3

\* a transport failure occurred in the call: the socket did not open, a send failed, a
\* recv failed, or a receive ran out of attempts
C7_TransportFailure(s) ==
    \/ ~Opened(s)
    \/ s.raised_in \in {"auth_send", "auth_recv", "ok_send", "inv_send", "resp_recv", "deauth"}
    \/ (Len(s.sent) >= 1 /\ s.raised_in # "auth_recv" /\ ~s.auth_replied)
    \/ (Len(s.sent) >= 3 /\ s.raised_in # "resp_recv" /\ s.at_response = None)

\* C7 as stated: after a transport failure send_request returns None and the flag is
\* False.
C7_FailureClearsFlag ==
    (conn.pc = "returned" /\ C7_TransportFailure(conn))
        => (conn.result = None /\ ~conn.reachable)

\* C7 as amended: the flag is False after a call exactly when its socket did not open,
\* and then send_request returned None; a failed send or a failed or exhausted receive
\* leaves the flag True, and send_request returns None after a failed send of the
\* authenticate, "+ok" or AT+INVDATA command, after a recv that raised, and after a
\* response receive that failed or ran out of attempts.
C7_OnlyOpenFailureClearsFlag ==
    conn.pc = "returned" =>
        /\ conn.reachable = Opened(conn)
        /\ ~Opened(conn) => conn.result = None
        /\ conn.raised_in \in {"auth_send", "auth_recv", "ok_send", "inv_send", "resp_recv"}
              => conn.result = None
        /\ (Len(conn.sent) >= 3 /\ conn.at_response = None) => conn.result = None

\* the authenticate command could not be sent: None is returned, the flag stays True
C7_Witness ==
    /\ conn.pc = "returned" /\ conn.raised_in = "auth_send"
    /\ conn.result = None /\ conn.reachable

\* what a connector does on the network, and what it returns
C8_Protocol(s) ==
    [pc |-> s.pc, sock |-> s.sock, sent |-> s.sent, attempts |-> s.attempts,
     recvs |-> s.recvs, at_response |-> s.at_response, result |-> s.result,
     raised_in |-> s.raised_in]

\* the messages of a log that are not about reachability
C8_OtherLog(log) ==
    LET Other(r) == r.msg \notin {"Could not open socket", "Re-connected to socket"}
    IN  SelectSeq(log, Other)

C9_FiveRecvsPerSession == conn.recvs <= Attempts

\* a measure of what is left of a call: the position in send_request, and within a
\* receive the attempts left
C9_Rank(s) ==
    CASE s.pc = "create" -> 100
      [] s.pc = "auth_send" -> 90
      [] s.pc = "auth_recv" -> 80 + s.attempts
      [] s.pc = "ok_send" -> 70
      [] s.pc = "inv_send" -> 60
      [] s.pc = "resp_recv" -> 50 + s.attempts
      [] s.pc = "classify" -> 40
      [] s.pc = "deauth" -> 30
      [] s.pc = "except" -> 20
      [] s.pc = "finally" -> 10
      [] OTHER -> 0

\* C9 as amended: every session terminates (the loop of a receive is entered with an
\* attempt left, the only condition any step of a call waits for, and every step brings
\* the call nearer its end); each receive has its own budget of 5 attempts, so a
\* session makes at most 10 recv attempts in all.
C9_SessionBounded ==
    /\ [](conn.recvs <= 2 * Attempts /\ conn.attempts \in 0..Attempts)
    /\ [](conn.pc \in {"auth_recv", "resp_recv"} => conn.attempts > 0)
    /\ [][InCall(conn) => C9_Rank(conn') < C9_Rank(conn)]_vars

\* both receives ran out of attempts
C9_Witness == conn.pc = "returned" /\ conn.recvs = 2 * Attempts

\* C10: a valid response frame that lost one or more bytes from its end is rejected
\* with the framing error, never with the CRC error.
C10_TruncatedIsTooShort ==
    (codec.pc = "parsed" /\ codec.cut >= 1) => codec.error = "Modbus frame is too short"

\* a frame for two registers that lost its last byte was parsed
C10_Witness ==
    /\ codec.pc = "parsed" /\ codec.cut = 1
    /\ codec.last_reg = codec.first_reg + 1
    /\ codec.error = "Modbus frame is too short"

\* C11: a valid response frame in which one byte of the data region (the bytes the
\* CRC covers) was changed to another value is rejected with the CRC error, and no
\* register map is built from it.
C11_CorruptionDetected ==
    (codec.pc = "parsed" /\ codec.changed >= 1)
        => /\ codec.error = "Modbus frame crc is not valid"
           /\ codec.registers = <<>>

\* a frame for two registers with its first data byte changed was parsed
C11_Witness ==
    /\ codec.pc = "parsed" /\ codec.changed = 4
    /\ codec.last_reg = codec.first_reg + 1
    /\ Len(codec.frame) = 9
    /\ codec.error = "Modbus frame crc is not valid"

\* C12: parsing a valid response frame for first_reg..last_reg (3 header bytes, 2n
\* data bytes, the CRC-16/MODBUS of those bytes low byte first) gives a register map
\* with exactly the n keys first_reg..last_reg, each entry the 2 frame bytes at offset
\* 3+2k; the CRC appended to the request is low byte first as well.
C12_ValidFrameRoundTrip ==
    (codec.pc = "parsed" /\ codec.cut = 0 /\ codec.changed = 0) =>
        LET n == codec.last_reg - codec.first_reg + 1
            req == build_modbus_read_holding_registers_request_frame(
                       codec.first_reg, codec.last_reg)
        IN  /\ Len(codec.frame) = 3 + 2 * n + 2
            /\ codec.error = ""
            /\ DOMAIN codec.registers = codec.first_reg..codec.last_reg
            /\ Cardinality(DOMAIN codec.registers) = n
            /\ \A k \in 0..(n - 1) :
                  /\ Len(codec.registers[codec.first_reg + k]) = 2
                  /\ codec.registers[codec.first_reg + k]
                        = <<codec.frame[3 + 2 * k + 1], codec.frame[3 + 2 * k + 2]>>
            /\ Len(request_crc_bytes(req)) = 2
            /\ from_bytes_little(request_crc_bytes(req)) = modbus_crc16(req)

\* a frame for the three registers 0..2 holding 65535, 0 and 1 was parsed
C12_Witness ==
    /\ codec.pc = "parsed" /\ codec.cut = 0 /\ codec.changed = 0
    /\ codec.first_reg = 0 /\ codec.last_reg = 2
    /\ codec.registers = (0 :> <<255, 255>> @@ 1 :> <<0, 0>> @@ 2 :> <<0, 1>>)

\* C13: read_unit32(map, addr) is the 32-bit value of the registers addr and addr+1,
\* high word first (its quotient by 65536 is u16(addr), its remainder u16(addr+1)),
\* and read_int32 is negative whenever the high bit of register addr is set.
C13_TwoRegisterValue ==
    (fields # <<>> /\ fields.width = 32) =>
        /\ fields.unit \div 65536 = read_unit16(response, 0)
        /\ fields.unit % 65536 = read_unit16(response, 1)
        /\ read_unit16(response, 0) >= 32768 => fields.int < 0

\* C14: for every 16-bit register value v, read_int16 returns v when v <= 32767 and
\* v - 65536 otherwise, a value of -32768..32767; 0x7FFF gives 32767, 0x8000 gives
\* -32768 and 0xFFFF gives -1.
C14_Int16 ==
    (fields # <<>> /\ fields.width = 16) =>
        LET v == 256 * response[0][1] + response[0][2]
        IN  /\ fields.int = (IF v <= 32767 THEN v ELSE v - 65536)
            /\ fields.int \in -32768..32767
            /\ v = 32767 => fields.int = 32767
            /\ v = 32768 => fields.int = -32768
            /\ v = 65535 => fields.int = -1

\* the register 0x8000 was read as -32768
C14_Witness ==
    /\ fields # <<>> /\ fields.width = 16
    /\ response[0] = <<128, 0>>
    /\ fields.int = -32768

\* the text h of an AT response r: r without its 0x10 bytes, without the first 4 and
\* the last 4 of the bytes that remain
C15_Text(r) ==
    LET kept == {i \in 1..Len(r) : r[i] # 16}
        Nth(k) == CHOOSE i \in kept : Cardinality({j \in kept : j < i}) = k - 1
        m == Cardinality(kept)
    IN  [k \in 1..(IF m > 8 THEN m - 8 ELSE 0) |-> r[Nth(k + 4)]]

\* C15: extract_modbus_respose(r) is the hex decoding of the text h of r, without
\* its last 4 characters when h is longer than 4 and ends in "0000" (they are dropped
\* once); a text that is exactly "0000" is decoded as it is.
C15_Extraction ==
    mpc = "extracted" =>
        LET h == C15_Text(conn.at_response)
            n == Len(h)
            zeros == n >= 4 /\ \A i \in (n - 3)..n : h[i] = 48
            text == IF n > 4 /\ zeros THEN SubSeq(h, 1, n - 4) ELSE h
        IN  /\ conn.modbus_response = fromhex(text)
            /\ h = <<48, 48, 48, 48>> => conn.modbus_response = <<0, 0>>

\* "+ok=" and the trailer, with a padding byte in each, around "00000000": "0000" is
\* left and decoded
C15_Witness ==
    /\ mpc = "extracted"
    /\ conn.at_response
         = <<16, 43, 111, 107, 61, 48, 48, 48, 48, 48, 48, 48, 48, 13, 10, 16, 13, 10>>
    /\ conn.modbus_response = <<0, 0>>

\* C16: at every point of the record loop the names in values are exactly the mapped
\* names of the records passed whose tag is in obis_mapping, each with the scaled
\* value of the last such record; identity records and unmapped records add nothing,
\* and only an identity record makes the loop raise.
C16_MeasurementSet ==
    LET passed == SubSeq(tibber.obis_values, 1, tibber.i)
        mapped == {k \in 1..tibber.i : passed[k].obis \in DOMAIN obis_mapping}
        name(k) == obis_mapping[passed[k].obis].name
        last(nm) == CHOOSE k \in mapped :
                        name(k) = nm /\ \A j \in mapped : name(j) = nm => j <= k
    IN  /\ DOMAIN tibber.values = {name(k) : k \in mapped}
        /\ Cardinality(DOMAIN tibber.values)
             = Cardinality({passed[k].obis : k \in mapped})
        /\ \A nm \in DOMAIN tibber.values :
              tibber.values[nm]
                = scaled(passed[last(nm)].value, obis_mapping[passed[last(nm)].obis].per)
        /\ tibber.pc = "raised" => tibber.obis_values[tibber.i + 1].obis = IdentityTag

\* energy_total_import twice with an unmapped record between: the last value is kept
C16_Witness ==
    /\ tibber.pc = "done"
    /\ tibber.obis_values = <<Record(Tag(1, 8), 7), UnmappedRecord, Record(Tag(1, 8), 1234)>>
    /\ tibber.values = ("energy_total_import" :> 123)

\* a poll that returned bytes holding a complete frame with the right CRC
C17_Decoded(e) ==
    /\ e.ev = "poll" /\ e.got.kind = "content"
    /\ e.got.content.head /\ e.got.content.tail = "good"

\* C17: the polling loop is left only by the poll that returned a complete frame with
\* the right CRC, and the record loop runs on that frame; after any other poll (an
\* exception, a failed or empty response, a partial frame, a CrcError) the script is
\* still in the loop, at the next poll or at the sleep that leads to it.
C17_ExitOnlyWithFrame ==
    /\ [](LET n == Len(tibber.trace)
          IN  /\ tibber.pc \in {"poll", "sleep", "map", "done"}
              /\ \A k \in 1..(n - 1) : ~C17_Decoded(tibber.trace[k])
              /\ tibber.pc \in {"map", "done"} =>
                    /\ n >= 1 /\ C17_Decoded(tibber.trace[n])
                    /\ tibber.sml_frame.present
                    /\ tibber.sml_frame.entries = tibber.trace[n].got.content.entries
                    /\ tibber.obis_values = tibber.sml_frame.entries
              /\ tibber.pc \in {"poll", "sleep"} =>
                    /\ ~tibber.sml_frame.present
                    /\ n >= 1 => ~C17_Decoded(tibber.trace[n]))
    /\ [][tibber.pc = "sleep" => tibber'.pc = "poll" /\ tibber'.polls = tibber.polls]_vars
    /\ [][tibber.pc = "poll" => tibber'.polls = tibber.polls + 1]_vars

\* an exception, a failed response, a frame with a wrong CRC, and then the frame
C17_Witness ==
    /\ tibber.pc = "done" /\ tibber.polls = 4
    /\ tibber.trace[1].got.kind = "raise"
    /\ tibber.trace[2].got.kind = "status"
    /\ tibber.trace[4].got.content = BadCrcChunk
    /\ tibber.trace[5].got.content = FullFrame

\* a poll that ended in a partial frame or in a checksum mismatch
C18_Transient(e) ==
    /\ e.ev = "poll" /\ e.got.kind = "content" /\ e.got.content # EmptyChunk
    /\ get_frame(e.got.content) \in {"none", "crc"}

\* C18: after a poll that ended in a partial frame or a checksum mismatch the loop
\* sleeps before it polls again.
C18_BackoffAfterTransient ==
    \A k \in 1..(Len(tibber.trace) - 1) :
        C18_Transient(tibber.trace[k]) => tibber.trace[k + 1].ev = "sleep"

\* the polls of a trace
C19_Polls(trace) ==
    LET IsPoll(e) == e.ev = "poll"
    IN  SelectSeq(trace, IsPoll)

\* C19: when two consecutive polls return the first and the second part of a frame,
\* the frame is decoded at the second poll and the loop is left there.
C19_SplitFrameDecoded ==
    LET polls == C19_Polls(tibber.trace)
    IN  \A k \in 1..(Len(polls) - 1) :
            (polls[k].got.content = FirstPart /\ polls[k + 1].got.content = SecondPart)
                => /\ k + 1 = Len(polls)
                   /\ tibber.pc \in {"map", "done"}
                   /\ tibber.sml_frame.entries = SampleRecords

\* what the claim says of one attempt of a receive: s is the connector before the
\* attempt, o what recv did, s2 the connector after it
C20_Policy(s, o, s2) ==
    LET over == s2.pc = (IF s.pc = "auth_recv" THEN "ok_send" ELSE "classify")
        nothing == IF s.pc = "auth_recv" THEN ~s2.auth_replied ELSE s2.at_response = None
    IN  /\ s2.recvs = s.recvs + 1
        /\ (o.kind = "data" /\ o.data # <<>>) =>
              /\ over
              /\ IF s.pc = "auth_recv" THEN s2.auth_replied ELSE s2.at_response = o.data
        /\ (o.kind = "timeout" \/ (o.kind = "data" /\ o.data = <<>>)) =>
              IF s.attempts > 1
              THEN s2.pc = s.pc /\ s2.attempts = s.attempts - 1
              ELSE over /\ nothing

\* C20: a receive is entered with 5 attempts, the authenticate receive and the
\* response receive each with their own; an attempt is one recv call; a non-empty
\* datagram ends the receive at once and is returned, a timeout or an empty datagram
\* takes one attempt and leads to the next, and after the fifth the receive returns
\* None.
C20_ReceivePolicy ==
    /\ [](conn.pc \in {"auth_recv", "resp_recv"} => conn.attempts \in 1..Attempts)
    /\ [](conn.pc = "auth_recv" => conn.recvs = Attempts - conn.attempts)
    /\ [][(conn'.pc \in {"auth_recv", "resp_recv"} /\ conn'.pc # conn.pc)
             => conn'.attempts = Attempts]_vars
    /\ [][conn.pc \in {"auth_recv", "resp_recv"} =>
             \A o \in RecvOutcomes :
                 conn' = receive_attempt(conn, o) => C20_Policy(conn, o, conn')]_vars

\* the authenticate receive ran out of attempts and the response receive returned a
\* datagram at its third
C20_Witness ==
    /\ conn.pc = "classify" /\ conn.recvs = Attempts + 3
    /\ ~conn.auth_replied
    /\ conn.at_response = AtReply(GoodFrame)

\* the datagrams a call has sent, in order
C21_SentData == [i \in 1..Len(conn.sent) |-> conn.sent[i].data]

\* the commands of a session in the order send_request sends them
C21_Order == <<AuthCommand, OkCommand, InvDataCommand(conn.req_frame), QuitCommand>>

\* C21: the datagrams a session sends form a prefix of the authenticate command,
\* "+ok", AT+INVDATA with the byte length and the hex text of the request, and the
\* quit command; the quit command is sent only after a response datagram that begins
\* with neither "+ok=no data" nor "+ERR=" and whose extraction did not raise, nothing
\* is sent or received after it, and a session that ends in no data, a device error
\* or an exception has sent no quit command.
C21_SendSequence ==
    /\ [](/\ Len(conn.sent) <= 4
          /\ C21_SentData = SubSeq(C21_Order, 1, Len(conn.sent)))
    /\ [](Len(conn.sent) = 4 =>
             /\ conn.at_response # None /\ conn.at_response # <<>>
             /\ ~startswith(conn.at_response,
                            <<43, 111, 107, 61, 110, 111, 32, 100, 97, 116, 97>>)
             /\ ~startswith(conn.at_response, <<43, 69, 82, 82, 61>>)
             /\ startswith(conn.at_response, <<43, 111, 107, 61>>)
                   => conn.modbus_response # None
             /\ conn.raised_in = "" /\ ~conn.early)
    /\ [](conn.pc = "returned" /\ (conn.early \/ conn.raised_in # "")
             => Len(conn.sent) <= 3)
    /\ [][(Len(conn.sent) = 4 /\ conn'.pc # "create")
             => conn'.recvs = conn.recvs /\ conn'.sent = conn.sent]_vars

\* a reply "+ok" that carries no frame: the quit command is sent, None is returned
C21_Witness ==
    /\ conn.pc = "returned" /\ Len(conn.sent) = 4
    /\ conn.sent[4].data = <<65, 84, 43, 81, 10>>
    /\ conn.at_response = <<43, 111, 107, 13, 10, 13, 10>>
    /\ conn.result = None

\* the AT+INVDATA command is among the datagrams sent
C22_PayloadSent == Len(conn.sent) >= 3

\* C22 as stated: a session whose socket opened and that ended without sending the
\* payload raised an exception inside the authenticate step.
C22_OnlyAuthExceptionStops ==
    (conn.pc = "returned" /\ Opened(conn) /\ ~C22_PayloadSent)
        => conn.raised_in \in {"auth_send", "auth_recv"}

\* C22 as amended: the authenticate receive, whatever it returns, is followed by the
\* "+ok" send, and the response receive is entered with the three commands sent
\* whether or not the authenticate receive got a reply; a session whose socket opened
\* ends without sending the payload only by an exception raised in the authenticate
\* step (its send, or its recv raising OSError) or by a failed send of "+ok" or of
\* AT+INVDATA itself.
C22_PayloadRegardlessOfAuth ==
    /\ [][(conn.pc = "auth_recv" /\ conn'.pc # "auth_recv")
             => \/ conn'.pc = "ok_send" /\ conn'.raised_in = ""
                \/ conn'.pc = "except" /\ conn'.raised_in = "auth_recv"]_vars
    /\ [](conn.pc = "resp_recv" => C22_PayloadSent /\ conn.raised_in = "")
    /\ []((conn.pc = "returned" /\ Opened(conn) /\ ~C22_PayloadSent)
             => conn.raised_in \in {"auth_send", "auth_recv", "ok_send", "inv_send"})
    /\ []((conn.pc = "returned" /\ conn.raised_in \in {"auth_send", "auth_recv"})
             => Len(conn.sent) <= 1)

\* the authenticate receive used its 5 attempts and got nothing; the session waits
\* for the response with the payload sent
C22_Witness ==
    /\ conn.pc = "resp_recv" /\ ~conn.auth_replied
    /\ conn.recvs = Attempts /\ Len(conn.sent) = 3

\* C23: a frame f carried as "+ok=", the hex text of f and a four byte trailer is
\* extracted as f, unless the hex text is longer than 4 characters and ends in
\* "0000": then f comes out without its last two bytes. A valid response frame whose
\* two CRC bytes are 0x00 is hence rejected with the framing error; every other valid
\* frame is parsed.
C23_LosslessButZeros ==
    codec.carried =>
        LET f == codec.frame
            h == hex(f)
            zeros == Len(h) > 4 /\ SubSeq(h, Len(h) - 3, Len(h)) = <<48, 48, 48, 48>>
        IN  /\ codec.extracted = (IF zeros THEN SubSeq(f, 1, Len(f) - 2) ELSE f)
            /\ (codec.cut = 0 /\ f[Len(f) - 1] = 0 /\ f[Len(f)] = 0)
                  => codec.error = "Modbus frame is too short"
            /\ (codec.cut = 0 /\ ~zeros)
                  => /\ codec.error = ""
                     /\ DOMAIN codec.registers = codec.first_reg..codec.last_reg

\* the valid frame 01 03 02 a1 31 00 00 was carried: its CRC bytes were dropped
C23_Witness ==
    /\ codec.carried /\ codec.cut = 0
    /\ codec.frame = <<1, 3, 2, 161, 49, 0, 0>>
    /\ codec.extracted = <<1, 3, 2, 161, 49>>
    /\ codec.error = "Modbus frame is too short"

\* the datagrams the response receive of the running call took and that are not empty
C24_Response == SelectSeq(net.taken, LAMBDA t : t.phase = "resp_recv" /\ t.data # <<>>)

\* C24: the response receive accepts the first non-empty datagram that arrives on
\* the socket, whichever command it answers: recv returns the datagrams in the order
\* of their arrival and skips none, the response receive takes one non-empty
\* datagram at most and that one is at_response; and when that one is the answer to
\* the authenticate command, left over by the authenticate receive, and does not
\* begin with "+ok=", send_request returns None and has read no answer to AT+INVDATA
C24_StaleReplyTaken ==
    /\ Len(net.taken) <= Len(net.delivered)
    /\ \A i \in 1..Len(net.taken) :
          /\ net.taken[i].data = net.delivered[i].data
          /\ net.taken[i].answers = net.delivered[i].answers
    /\ Len(C24_Response) <= 1
    /\ C24_Response # <<>> => conn.at_response = C24_Response[1].data
    /\ ( /\ conn.pc = "returned"
         /\ C24_Response # <<>>
         /\ C24_Response[1].answers = "auth"
         /\ ~startswith(C24_Response[1].data, OkPrefix) )
       => /\ conn.result = None
          /\ \A i \in 1..Len(net.taken) : net.taken[i].answers # "invdata"

\* the authenticate receive gave up, the identification of the device came late and
\* was taken as the response: None is returned while the valid reply waits unread
C24_Witness ==
    /\ conn.pc = "returned"
    /\ conn.result = None
    /\ ~conn.auth_replied
    /\ net.taken = << [data |-> <<49, 44, 50>>, answers |-> "auth", phase |-> "resp_recv"] >>
    /\ net.arrived = << Reply(AtReply(GoodFrame), "invdata") >>

====
